---- MODULE Spec2Model ----
(***************************************************************************)
(* A model of the Envelope core of bc-envelope-rust: the seven-variant     *)
(* envelope value with its precomputed digests, the tagged CBOR codec,     *)
(* assertion attachment and the obscuring transforms (encrypt, compress,   *)
(* elide) with their inverses.                                              *)
(*                                                                         *)
(* Byte strings are sequences of naturals.  A digest is the length-prefixed *)
(* image it was computed from: SHA-256 is modelled as an injective function *)
(* whose outputs are self-delimiting, which is what fixed-width,            *)
(* collision-free 32-byte digests give the program.                         *)
(***************************************************************************)
EXTENDS Integers, Sequences, FiniteSets, TLC

\* the field names of the records of the model, in the order that every record
\* lists its fields
FieldNames ==
    [a |-> "a", aad |-> "aad", arg |-> "arg", array |-> "array",
     assertions |-> "assertions", at |-> "at", auth |-> "auth", base |-> "base",
     bytes |-> "bytes", c |-> "c", cbor |-> "cbor",
     ciphertext |-> "ciphertext", compressed |-> "compressed",
     compressed_data |-> "compressed_data", d |-> "d", digest |-> "digest",
     e |-> "e", edge |-> "edge", envelope |-> "envelope", err |-> "err", item |-> "item",
     key |-> "key", kind |-> "kind", level |-> "level", m |-> "m", message |-> "message",
     n |-> "n", nonce |-> "nonce", object |-> "object", of |-> "of", ok |-> "ok",
     op |-> "op", original_digest |-> "original_digest", p |-> "p", parent |-> "parent",
     predicate |-> "predicate", rest |-> "rest", result |-> "result",
     salted |-> "salted", some |-> "some", src |-> "src",
     subject |-> "subject", t |-> "t", tag |-> "tag", text |-> "text",
     uint |-> "uint", uncompressed_size |-> "uncompressed_size", v |-> "v",
     val |-> "val", value |-> "value"]

VARIABLES env, ops, last, origin, visits

\* the lazily initialised registries and the threads that read them
VARIABLES init, lazy_data, holder, ran, stack, calls, handed

coreVars == <<env, ops, last, origin, visits>>
lazyVars == <<init, lazy_data, holder, ran, stack, calls, handed>>
vars == <<env, ops, last, origin, visits, init, lazy_data, holder, ran, stack, calls, handed>>

(***************************************************************************)
(* Bounds of the model.                                                    *)
(***************************************************************************)
\* the threads that read the registries, and the most calls of get() by one
\* thread
MaxThreads == 2
MaxCalls == 2

\* the most calls that build on an envelope the caller starts from (wrap it,
\* nest it, build a Node on it, obscure it)
MaxOps == 1
\* the most assertions the caller attaches to one Node
MaxAssertions == 3

(***************************************************************************)
(* CBOR tags (bc_components::tags_registry), as cbor.rs dispatches on them. *)
(***************************************************************************)
ENVELOPE == 200
LEAF == 24
KNOWN_VALUE == 223
WRAPPED_ENVELOPE == 224
ASSERTION == 221
ENCRYPTED == 205
COMPRESSED == 206
DIGEST == 204

(***************************************************************************)
(* Results: Ok(value) or Err(kind).                                        *)
(***************************************************************************)
Ok(v) == [ok |-> TRUE, val |-> v]
Err(e) == [err |-> e, ok |-> FALSE]

\* let v = ...; K(v)
With(v, K(_)) == K(v)
\* the ? operator: K on the value, or the error as it is
AndThen(r, K(_)) == IF r.ok THEN K(r.val) ELSE r
\* Result::map and Result::map_err
Map(r, F(_)) == IF r.ok THEN Ok(F(r.val)) ELSE r
MapErr(r, e) == IF r.ok THEN r ELSE Err(e)

(***************************************************************************)
(* Generic sequence helpers.                                               *)
(***************************************************************************)
RECURSIVE Flatten(_)
Flatten(ss) == IF ss = <<>> THEN <<>> ELSE Head(ss) \o Flatten(Tail(ss))

Reverse(s) == [i \in 1..Len(s) |-> s[Len(s) + 1 - i]]

Take(s, n) == SubSeq(s, 1, n)
Drop(s, n) == SubSeq(s, n + 1, Len(s))

(***************************************************************************)
(* dcbor: CBOR values are records                                          *)
(*   [uint |-> n]  [bytes |-> b]  [text |-> t]  [array |-> <<..>>]         *)
(*   [tag |-> t, item |-> c]                                               *)
(* cbor_data serialises a value, from_data parses a byte string.           *)
(***************************************************************************)
CborUInt(n) == [uint |-> n]
CborBytes(b) == [bytes |-> b]
CborText(t) == [text |-> t]
CborArray(a) == [array |-> a]
Tagged(t, c) == [item |-> c, tag |-> t]

IsUInt(c) == DOMAIN c = {"uint"}
IsBytes(c) == DOMAIN c = {"bytes"}
IsText(c) == DOMAIN c = {"text"}
IsArray(c) == DOMAIN c = {"array"}
IsTagged(c) == DOMAIN c = {"tag", "item"}

\* major types: 0 unsigned, 2 byte string, 3 text string, 4 array, 6 tag
RECURSIVE cbor_data(_)
cbor_data(c) ==
    IF IsUInt(c) THEN <<0, c.uint>>
    ELSE IF IsBytes(c) THEN <<2, Len(c.bytes)>> \o c.bytes
    ELSE IF IsText(c) THEN <<3, c.text>>
    ELSE IF IsArray(c) THEN
        <<4, Len(c.array)>> \o Flatten([i \in 1..Len(c.array) |-> cbor_data(c.array[i])])
    ELSE <<6, c.tag>> \o cbor_data(c.item)

\* parse one item off the front of b: [ok, val, rest]
RECURSIVE ParseItem(_)
RECURSIVE ParseItems(_, _)
NoParse == [ok |-> FALSE]
Parsed(v, rest) == [ok |-> TRUE, rest |-> rest, val |-> v]

ParseItem(b) ==
    IF Len(b) < 2 THEN NoParse
    ELSE IF b[1] = 0 THEN Parsed(CborUInt(b[2]), Drop(b, 2))
    ELSE IF b[1] = 3 THEN Parsed(CborText(b[2]), Drop(b, 2))
    ELSE IF b[1] = 2 THEN
        IF Len(b) - 2 < b[2] THEN NoParse
        ELSE Parsed(CborBytes(SubSeq(b, 3, 2 + b[2])), Drop(b, 2 + b[2]))
    ELSE IF b[1] = 4 THEN
        With(ParseItems(b[2], Drop(b, 2)),
             LAMBDA r : IF r.ok THEN Parsed(CborArray(r.val), r.rest) ELSE NoParse)
    ELSE IF b[1] = 6 THEN
        With(ParseItem(Drop(b, 2)),
             LAMBDA r : IF r.ok THEN Parsed(Tagged(b[2], r.val), r.rest) ELSE NoParse)
    ELSE NoParse

ParseItems(n, b) ==
    IF n = 0 THEN Parsed(<<>>, b)
    ELSE With(ParseItem(b),
              LAMBDA r :
                  IF ~r.ok THEN NoParse
                  ELSE With(ParseItems(n - 1, r.rest),
                            LAMBDA q : IF q.ok THEN Parsed(<<r.val>> \o q.val, q.rest)
                                       ELSE NoParse))

from_data(b) ==
    With(ParseItem(b),
         LAMBDA r : IF r.ok /\ r.rest = <<>> THEN Ok(r.val) ELSE Err("CBORError"))

(***************************************************************************)
(* bc_components::Digest.                                                  *)
(***************************************************************************)
from_image(image) == <<Len(image)>> \o image

from_digests(digests) == from_image(Flatten(digests))

\* a byte string that is a digest (the program's check is "32 bytes long")
IsDigest(b) == Len(b) >= 1 /\ b[1] = Len(b) - 1

\* Ord for Digest: lexicographic on the bytes
RECURSIVE DigestLess(_, _)
DigestLess(a, b) ==
    IF b = <<>> THEN FALSE
    ELSE IF a = <<>> THEN TRUE
    ELSE IF Head(a) # Head(b) THEN Head(a) < Head(b)
    ELSE DigestLess(Tail(a), Tail(b))

Digest_tagged_cbor(d) == Tagged(DIGEST, CborBytes(d))

Digest_from_untagged_cbor(item) ==
    IF IsBytes(item) /\ IsDigest(item.bytes) THEN Ok(item.bytes) ELSE Err("InvalidFormat")

Digest_from_tagged_cbor(c) ==
    IF IsTagged(c) /\ c.tag = DIGEST THEN Digest_from_untagged_cbor(c.item)
    ELSE Err("InvalidFormat")

\* Option<Digest>
SomeDigest(d) == [d |-> d, some |-> TRUE]
NoDigest == [some |-> FALSE]
\* Result::ok
ResultOk(r) == IF r.ok THEN SomeDigest(r.val) ELSE NoDigest

(***************************************************************************)
(* KnownValue: an unsigned identifier.  Its CBOR is the identifier, its     *)
(* digest the hash of that CBOR; on the wire it is tagged KNOWN_VALUE.      *)
(***************************************************************************)
KnownValue_cbor(value) == CborUInt(value)

KnownValue_digest(value) == from_image(cbor_data(KnownValue_cbor(value)))

KnownValue_tagged_cbor(value) == Tagged(KNOWN_VALUE, CborUInt(value))

KnownValue_from_untagged_cbor(item) ==
    IF IsUInt(item) THEN Ok(item.uint) ELSE Err("InvalidFormat")

(***************************************************************************)
(* bc_components::EncryptedMessage and SymmetricKey.  The message carries   *)
(* ciphertext, nonce, authentication tag and the additional authenticated   *)
(* data, which holds the tagged CBOR of the plaintext digest.  The cipher   *)
(* shifts every byte by the key; the tag verifies only under the key.       *)
(***************************************************************************)
EncryptedMessage_opt_digest(m) ==
    ResultOk(AndThen(from_data(m.aad), Digest_from_tagged_cbor))

EncryptedMessage_has_digest(m) == EncryptedMessage_opt_digest(m).some

encrypt_with_digest(key, plaintext, digest, nonce) ==
    [aad |-> cbor_data(Digest_tagged_cbor(digest)),
     auth |-> key,
     ciphertext |-> [i \in 1..Len(plaintext) |-> plaintext[i] + key],
     nonce |-> nonce]

\* SymmetricKey::encrypt with no additional authenticated data: the message
\* carries no digest
SymmetricKey_encrypt(key, plaintext, nonce) ==
    [aad |-> <<>>,
     auth |-> key,
     ciphertext |-> [i \in 1..Len(plaintext) |-> plaintext[i] + key],
     nonce |-> nonce]

SymmetricKey_decrypt(key, m) ==
    IF m.auth # key THEN Err("CryptoError")
    ELSE IF \E i \in 1..Len(m.ciphertext) : m.ciphertext[i] < key THEN Err("CryptoError")
    ELSE Ok([i \in 1..Len(m.ciphertext) |-> m.ciphertext[i] - key])

EncryptedMessage_tagged_cbor(m) ==
    Tagged(ENCRYPTED,
           CborArray(<<CborBytes(m.ciphertext), CborUInt(m.nonce), CborUInt(m.auth)>>
                     \o (IF m.aad = <<>> THEN <<>> ELSE <<CborBytes(m.aad)>>)))

EncryptedMessage_from_untagged_cbor(item) ==
    IF ~IsArray(item) THEN Err("InvalidFormat")
    ELSE LET a == item.array
         IN  IF Len(a) \notin {3, 4} THEN Err("InvalidFormat")
             ELSE IF ~(IsBytes(a[1]) /\ IsUInt(a[2]) /\ IsUInt(a[3])) THEN Err("InvalidFormat")
             ELSE IF Len(a) = 4 /\ ~IsBytes(a[4]) THEN Err("InvalidFormat")
             ELSE Ok([aad |-> IF Len(a) = 4 THEN a[4].bytes ELSE <<>>,
                      auth |-> a[3].uint,
                      ciphertext |-> a[1].bytes,
                      nonce |-> a[2].uint])

(***************************************************************************)
(* bc_components::Compressed: the deflated data, the size of the original   *)
(* and the optional digest of the original.  Deflate is modelled as byte    *)
(* reversal.                                                                *)
(***************************************************************************)
from_uncompressed_data(data, digest) ==
    [compressed_data |-> Reverse(data), digest |-> digest, uncompressed_size |-> Len(data)]

Compressed_uncompress(c) ==
    IF Len(c.compressed_data) # c.uncompressed_size THEN Err("CompressError")
    ELSE Ok(Reverse(c.compressed_data))

Compressed_has_digest(c) == c.digest.some

Compressed_tagged_cbor(c) ==
    Tagged(COMPRESSED,
           CborArray(<<CborUInt(c.uncompressed_size), CborBytes(c.compressed_data)>>
                     \o (IF c.digest.some THEN <<Digest_tagged_cbor(c.digest.d)>> ELSE <<>>)))

Compressed_from_untagged_cbor(item) ==
    IF ~IsArray(item) THEN Err("InvalidFormat")
    ELSE LET a == item.array
         IN  IF Len(a) \notin {2, 3} THEN Err("InvalidFormat")
             ELSE IF ~(IsUInt(a[1]) /\ IsBytes(a[2])) THEN Err("InvalidFormat")
             ELSE IF Len(a) = 2
                  THEN Ok([compressed_data |-> a[2].bytes,
                           digest |-> NoDigest,
                           uncompressed_size |-> a[1].uint])
             ELSE MapErr(Map(Digest_from_tagged_cbor(a[3]),
                             LAMBDA d : [compressed_data |-> a[2].bytes,
                                         digest |-> SomeDigest(d),
                                         uncompressed_size |-> a[1].uint]),
                         "InvalidFormat")

(***************************************************************************)
(* Envelope: the sum of the variants of envelope.rs, as records tagged by v.*)
(*   Node       [v, subject, assertions, digest]                            *)
(*   Leaf       [v, cbor, digest]                                           *)
(*   Wrapped    [v, envelope, digest]                                       *)
(*   KnownValue [v, value, digest]                                          *)
(*   Assertion  [v, predicate, object, digest]                              *)
(*   Encrypted  [v, message]   Compressed [v, compressed]   Elided [v, digest]*)
(***************************************************************************)
\* DigestProvider for Envelope: the stored (or embedded) digest
digest(e) ==
    IF e.v = "Encrypted" THEN EncryptedMessage_opt_digest(e.message).d
    ELSE IF e.v = "Compressed" THEN e.compressed.digest.d
    ELSE e.digest

\* queries
subject(e) == IF e.v = "Node" THEN e.subject ELSE e

is_encrypted(e) == e.v = "Encrypted"
is_compressed(e) == e.v = "Compressed"
is_elided(e) == e.v = "Elided"
is_subject_assertion(e) == e.v = "Assertion"
is_subject_obscured(e) == e.v \in {"Encrypted", "Compressed", "Elided"}

\* Vec::sort_by(|a, b| a.digest().cmp(&b.digest())): a stable sort
InsertSorted(sorted, x) ==
    With(Cardinality({i \in 1..Len(sorted) : ~DigestLess(digest(x), digest(sorted[i]))}),
         LAMBDA k : Take(sorted, k) \o <<x>> \o Drop(sorted, k))

RECURSIVE sort_by_digest(_)
sort_by_digest(s) ==
    IF s = <<>> THEN <<>>
    ELSE InsertSorted(sort_by_digest(Take(s, Len(s) - 1)), s[Len(s)])

Digests(es) == [i \in 1..Len(es) |-> digest(es[i])]

\* the value a failed assert! leaves in place of an envelope
Panic == [v |-> "Panic"]

\* new_envelope_with_unchecked_assertions without its sort_by
new_envelope_unsorted(subj, unchecked_assertions) ==
    IF unchecked_assertions = <<>> THEN Panic
    ELSE [assertions |-> unchecked_assertions,
          digest |-> from_digests(<<digest(subj)>> \o Digests(unchecked_assertions)),
          subject |-> subj,
          v |-> "Node"]

\* new_envelope_with_unchecked_assertions taking the digest of the sorted
\* assertions but keeping them in the order given
new_envelope_keeping_order(subj, unchecked_assertions) ==
    IF unchecked_assertions = <<>> THEN Panic
    ELSE [assertions |-> unchecked_assertions,
          digest |-> from_digests(<<digest(subj)>>
                                  \o Digests(sort_by_digest(unchecked_assertions))),
          subject |-> subj,
          v |-> "Node"]

new_envelope_with_unchecked_assertions(subj, unchecked_assertions) ==
    IF unchecked_assertions = <<>> THEN Panic
    ELSE With(sort_by_digest(unchecked_assertions),
              LAMBDA sorted_assertions :
                  [assertions |-> sorted_assertions,
                   digest |-> from_digests(<<digest(subj)>> \o Digests(sorted_assertions)),
                   subject |-> subj,
                   v |-> "Node"])

new_with_assertions(subj, assertions) ==
    IF \E i \in 1..Len(assertions) :
           ~(is_subject_assertion(assertions[i]) \/ is_subject_obscured(assertions[i]))
    THEN Err("InvalidFormat")
    ELSE Ok(new_envelope_with_unchecked_assertions(subj, assertions))

new_with_assertion(assertion) ==
    [digest |-> assertion.digest,
     object |-> assertion.object,
     predicate |-> assertion.predicate,
     v |-> "Assertion"]

new_with_known_value(value) ==
    [digest |-> KnownValue_digest(value), v |-> "KnownValue", value |-> value]

new_with_encrypted(encrypted_message) ==
    IF ~EncryptedMessage_has_digest(encrypted_message) THEN Err("MissingDigest")
    ELSE Ok([message |-> encrypted_message, v |-> "Encrypted"])

new_with_compressed(compressed) ==
    IF ~Compressed_has_digest(compressed) THEN Err("MissingDigest")
    ELSE Ok([compressed |-> compressed, v |-> "Compressed"])

new_elided(d) == [digest |-> d, v |-> "Elided"]

new_leaf(cbor) == [cbor |-> cbor, digest |-> from_image(cbor_data(cbor)), v |-> "Leaf"]

\* new_wrapped taking over the digest of the envelope it wraps
new_wrapped_unhashed(envelope) ==
    [digest |-> digest(envelope), envelope |-> envelope, v |-> "Wrapped"]

new_wrapped(envelope) ==
    [digest |-> from_digests(<<digest(envelope)>>), envelope |-> envelope, v |-> "Wrapped"]

(***************************************************************************)
(* Assertion (assertion.rs) and the Enclosable coercion (envelope.rs).      *)
(* A payload is one of                                                      *)
(*   [p |-> "envelope", e]  [p |-> "known_value", n]  [p |-> "assertion", a]*)
(*   [p |-> "encrypted", m] [p |-> "compressed", c]   [p |-> "cbor", c]     *)
(*   [p |-> "text", t]      [p |-> "uint", n]                               *)
(***************************************************************************)
EnvelopePayload(e) == [e |-> e, p |-> "envelope"]
KnownValuePayload(n) == [n |-> n, p |-> "known_value"]
AssertionPayload(a) == [a |-> a, p |-> "assertion"]
EncryptedPayload(m) == [m |-> m, p |-> "encrypted"]
CompressedPayload(c) == [c |-> c, p |-> "compressed"]
CborPayload(c) == [c |-> c, p |-> "cbor"]
TextPayload(t) == [p |-> "text", t |-> t]
UIntPayload(n) == [n |-> n, p |-> "uint"]

\* Result::unwrap
Unwrap(r) == IF r.ok THEN r.val ELSE Panic

\* Enclosable that makes a leaf of the CBOR of a known value
enclose_as_leaf(x) ==
    IF x.p = "envelope" THEN new_wrapped(x.e)
    ELSE IF x.p = "known_value" THEN new_leaf(KnownValue_cbor(x.n))
    ELSE IF x.p = "assertion" THEN new_with_assertion(x.a)
    ELSE IF x.p = "encrypted" THEN Unwrap(new_with_encrypted(x.m))
    ELSE IF x.p = "compressed" THEN Unwrap(new_with_compressed(x.c))
    ELSE IF x.p = "cbor" THEN new_leaf(x.c)
    ELSE IF x.p = "text" THEN new_leaf(CborText(x.t))
    ELSE new_leaf(CborUInt(x.n))

enclose(x) ==
    IF x.p = "envelope" THEN new_wrapped(x.e)
    ELSE IF x.p = "known_value" THEN new_with_known_value(x.n)
    ELSE IF x.p = "assertion" THEN new_with_assertion(x.a)
    ELSE IF x.p = "encrypted" THEN Unwrap(new_with_encrypted(x.m))
    ELSE IF x.p = "compressed" THEN Unwrap(new_with_compressed(x.c))
    ELSE IF x.p = "cbor" THEN new_leaf(x.c)
    ELSE IF x.p = "text" THEN new_leaf(CborText(x.t))
    ELSE new_leaf(CborUInt(x.n))

\* IntoEnvelope that wraps an envelope, as Enclosable does
into_envelope_wrapping(x) == enclose(x)

\* base/into_envelope.rs: IntoEnvelope.  An envelope is passed through; a
\* string or an integer goes through its CBOR
into_envelope(x) ==
    IF x.p = "envelope" THEN x.e
    ELSE IF x.p = "known_value" THEN new_with_known_value(x.n)
    ELSE IF x.p = "assertion" THEN new_with_assertion(x.a)
    ELSE IF x.p = "encrypted" THEN Unwrap(new_with_encrypted(x.m))
    ELSE IF x.p = "compressed" THEN Unwrap(new_with_compressed(x.c))
    ELSE IF x.p = "cbor" THEN new_leaf(x.c)
    ELSE IF x.p = "text" THEN new_leaf(CborText(x.t))
    ELSE new_leaf(CborUInt(x.n))

\* Assertion::new: an argument whose type is an envelope is taken as it is,
\* any other argument is enclosed
Assertion_new(pred, obj) ==
    With(IF pred.p = "envelope" THEN pred.e ELSE enclose(pred),
         LAMBDA p :
             With(IF obj.p = "envelope" THEN obj.e ELSE enclose(obj),
                  LAMBDA o : [digest |-> from_digests(<<digest(p), digest(o)>>),
                              object |-> o,
                              predicate |-> p]))

new_assertion_with_predobj(pred, obj) == new_with_assertion(Assertion_new(pred, obj))

(***************************************************************************)
(* The CBOR codec (cbor.rs, assertion.rs).                                  *)
(***************************************************************************)
RECURSIVE untagged_cbor(_)
RECURSIVE tagged_cbor(_)

\* CBOREncodable for Envelope
cbor(e) == tagged_cbor(e)

Assertion_untagged_cbor(a) == CborArray(<<cbor(a.predicate), cbor(a.object)>>)

Assertion_tagged_cbor(a) == Tagged(ASSERTION, Assertion_untagged_cbor(a))

untagged_cbor(e) ==
    IF e.v = "Node" THEN
        CborArray(<<tagged_cbor(e.subject)>>
                  \o [i \in 1..Len(e.assertions) |-> tagged_cbor(e.assertions[i])])
    ELSE IF e.v = "Leaf" THEN Tagged(LEAF, e.cbor)
    ELSE IF e.v = "Wrapped" THEN Tagged(WRAPPED_ENVELOPE, cbor(e.envelope))
    ELSE IF e.v = "KnownValue" THEN KnownValue_tagged_cbor(e.value)
    ELSE IF e.v = "Assertion" THEN Assertion_tagged_cbor(e)
    ELSE IF e.v = "Encrypted" THEN EncryptedMessage_tagged_cbor(e.message)
    ELSE IF e.v = "Compressed" THEN Compressed_tagged_cbor(e.compressed)
    ELSE Digest_tagged_cbor(e.digest)

tagged_cbor(e) == Tagged(ENVELOPE, untagged_cbor(e))

RECURSIVE from_untagged_cbor(_)
RECURSIVE from_tagged_cbor(_)
RECURSIVE Assertion_from_untagged_cbor(_)

\* decode every element with from_tagged_cbor; the first error wins
FirstErr(rs) ==
    IF \E i \in 1..Len(rs) : ~rs[i].ok
    THEN rs[CHOOSE i \in 1..Len(rs) : ~rs[i].ok /\ \A j \in 1..(i - 1) : rs[j].ok]
    ELSE Ok([i \in 1..Len(rs) |-> rs[i].val])

DecodeAll(items) == FirstErr([i \in 1..Len(items) |-> from_tagged_cbor(items[i])])

Assertion_from_untagged_cbor(c) ==
    IF ~IsArray(c) THEN Err("WrongType")
    ELSE AndThen(DecodeAll(c.array),
                 LAMBDA a :
                     IF Len(a) # 2 THEN Err("InvalidFormat")
                     ELSE Ok(Assertion_new(EnvelopePayload(a[1]), EnvelopePayload(a[2]))))

from_untagged_cbor(c) ==
    IF IsTagged(c) THEN
        IF c.tag = LEAF THEN Ok(new_leaf(c.item))
        ELSE IF c.tag = KNOWN_VALUE THEN
            Map(KnownValue_from_untagged_cbor(c.item), new_with_known_value)
        ELSE IF c.tag = WRAPPED_ENVELOPE THEN
            Map(from_untagged_cbor(c.item), new_wrapped)
        ELSE IF c.tag = ASSERTION THEN
            Map(Assertion_from_untagged_cbor(c.item), new_with_assertion)
        ELSE IF c.tag = ENCRYPTED THEN
            AndThen(EncryptedMessage_from_untagged_cbor(c.item),
                    LAMBDA m : MapErr(new_with_encrypted(m), "InvalidFormat"))
        ELSE IF c.tag = COMPRESSED THEN
            AndThen(Compressed_from_untagged_cbor(c.item),
                    LAMBDA z : MapErr(new_with_compressed(z), "InvalidFormat"))
        ELSE IF c.tag = DIGEST THEN
            Map(Digest_from_untagged_cbor(c.item), new_elided)
        ELSE Err("InvalidFormat")
    ELSE IF IsArray(c) THEN
        IF Len(c.array) < 2 THEN Err("InvalidFormat")
        ELSE AndThen(from_tagged_cbor(c.array[1]),
                     LAMBDA s :
                         AndThen(DecodeAll(Tail(c.array)),
                                 LAMBDA as : MapErr(new_with_assertions(s, as),
                                                    "InvalidFormat")))
    ELSE Err("InvalidFormat")

\* CBORTaggedDecodable::from_tagged_cbor: the outer tag must be ENVELOPE
from_tagged_cbor(c) ==
    IF IsTagged(c) /\ c.tag = ENVELOPE THEN from_untagged_cbor(c.item)
    ELSE Err("WrongTag")

\* CBORDecodable::from_cbor_data
from_cbor_data(data) == AndThen(from_data(data), from_tagged_cbor)

\* CBOREncodable::cbor_data: the encoded form of an envelope
encode(e) == cbor_data(cbor(e))

(***************************************************************************)
(* Assertion attachment (assertions.rs).                                    *)
(***************************************************************************)
\* Option<Rc<Envelope>>
SomeEnvelope(e) == [e |-> e, some |-> TRUE]
NoEnvelope == [some |-> FALSE]

\* the known value that is the predicate of a salt assertion
SALT == 15

RECURSIVE add_assertion_opt(_, _, _, _)

\* salt.rs: attach the assertion  SALT: <random salt>  to the envelope
add_salt(e, salt) ==
    Unwrap(add_assertion_opt(
               e,
               SomeEnvelope(new_assertion_with_predobj(KnownValuePayload(SALT),
                                                       CborPayload(CborBytes(<<salt>>)))),
               FALSE, salt))

\* add_assertion_opt without the search for an assertion of the same digest
add_assertion_opt_appending(self, assertion, salted, salt) ==
    IF ~assertion.some THEN Ok(self)
    ELSE IF ~is_subject_assertion(assertion.e) /\ ~is_subject_obscured(assertion.e)
         THEN Err("InvalidFormat")
    ELSE With(IF salted THEN add_salt(assertion.e, salt) ELSE assertion.e,
              LAMBDA envelope2 :
                  IF self.v = "Node" THEN
                      Ok(new_envelope_with_unchecked_assertions(
                             self.subject, Append(self.assertions, envelope2)))
                  ELSE Ok(new_envelope_with_unchecked_assertions(
                              subject(self), <<envelope2>>)))

\* salt is the value the random generator yields when salted is set
add_assertion_opt(self, assertion, salted, salt) ==
    IF ~assertion.some THEN Ok(self)
    ELSE IF ~is_subject_assertion(assertion.e) /\ ~is_subject_obscured(assertion.e)
         THEN Err("InvalidFormat")
    ELSE With(IF salted THEN add_salt(assertion.e, salt) ELSE assertion.e,
              LAMBDA envelope2 :
                  IF self.v = "Node" THEN
                      IF ~(\E i \in 1..Len(self.assertions) :
                               digest(self.assertions[i]) = digest(envelope2))
                      THEN Ok(new_envelope_with_unchecked_assertions(
                                  self.subject, Append(self.assertions, envelope2)))
                      ELSE Ok(self)
                  ELSE Ok(new_envelope_with_unchecked_assertions(
                              subject(self), <<envelope2>>)))

\* the outcome of a call that panicked
Panicked == [err |-> "panic", ok |-> FALSE]

\* Result::unwrap on the outcome of a call
UnwrapResult(r) == IF r.ok THEN r ELSE Panicked

add_assertion(self, assertion) ==
    UnwrapResult(add_assertion_opt(self, SomeEnvelope(assertion), FALSE, 0))

(***************************************************************************)
(* Encryption of the subject (encrypt.rs).                                  *)
(***************************************************************************)
\* the part of encrypt_subject_opt that is the same in every arm
EncryptWith(key, encoded_cbor, d, nonce) ==
    new_with_encrypted(encrypt_with_digest(key, encoded_cbor, d, nonce))

\* the result of an arm together with the digest it must keep
Arm(r, original_digest) ==
    Map(r, LAMBDA e : [original_digest |-> original_digest, result |-> e])

encrypt_subject_opt(self, key, test_nonce) ==
    With(IF self.v = "Node" THEN
             IF is_encrypted(self.subject) THEN Err("AlreadyEncrypted")
             ELSE Arm(Map(EncryptWith(key, cbor_data(cbor(self.subject)),
                                      digest(self.subject), test_nonce),
                          LAMBDA encrypted_subject :
                              new_envelope_with_unchecked_assertions(
                                  encrypted_subject, self.assertions)),
                      self.digest)
         ELSE IF self.v = "Leaf" THEN
             Arm(EncryptWith(key, cbor_data(Tagged(LEAF, self.cbor)),
                             self.digest, test_nonce),
                 self.digest)
         ELSE IF self.v = "Wrapped" THEN
             Arm(EncryptWith(key, cbor_data(untagged_cbor(self)), self.digest, test_nonce),
                 self.digest)
         ELSE IF self.v = "KnownValue" THEN
             Arm(EncryptWith(key, cbor_data(KnownValue_cbor(self.value)),
                             self.digest, test_nonce),
                 self.digest)
         ELSE IF self.v = "Assertion" THEN
             Arm(EncryptWith(key, cbor_data(Assertion_tagged_cbor(self)),
                             self.digest, test_nonce),
                 self.digest)
         ELSE IF self.v = "Encrypted" THEN Err("AlreadyEncrypted")
         ELSE IF self.v = "Compressed" THEN
             Arm(EncryptWith(key, cbor_data(Compressed_tagged_cbor(self.compressed)),
                             self.compressed.digest.d, test_nonce),
                 self.compressed.digest.d)
         ELSE Err("AlreadyElided"),
         LAMBDA arm :
             IF ~arm.ok THEN arm
             \* assert_eq!(result.digest(), original_digest)
             ELSE IF digest(arm.val.result) # arm.val.original_digest THEN Panicked
             ELSE Ok(arm.val.result))

\* the tail of decrypt_subject: the decrypted subject checked against the
\* digest the message declares, and put back under the assertions
Redigested(self, result_subject, subject_digest) ==
    IF digest(result_subject) # subject_digest THEN Err("InvalidDigest")
    ELSE IF self.v = "Node" THEN
        With(new_envelope_with_unchecked_assertions(result_subject, self.assertions),
             LAMBDA result : IF digest(result) # self.digest THEN Err("InvalidDigest")
                             ELSE Ok(result))
    ELSE Ok(result_subject)

\* decrypt_subject without its two comparisons of digests
decrypt_subject_unverified(self, key) ==
    IF subject(self).v # "Encrypted" THEN Err("NotEncrypted")
    ELSE With(subject(self).message,
              LAMBDA message :
                  AndThen(MapErr(SymmetricKey_decrypt(key, message), "CryptoError"),
                          LAMBDA encoded_cbor :
                              With(EncryptedMessage_opt_digest(message),
                                   LAMBDA subject_digest :
                                       IF ~subject_digest.some THEN Err("MissingDigest")
                                       ELSE AndThen(
                                           MapErr(AndThen(from_data(encoded_cbor),
                                                          from_untagged_cbor),
                                                  "CBORError"),
                                           LAMBDA e :
                                               IF self.v = "Node"
                                               THEN Ok(new_envelope_with_unchecked_assertions(
                                                           subject(e), self.assertions))
                                               ELSE Ok(subject(e))))))

decrypt_subject(self, key) ==
    IF subject(self).v # "Encrypted" THEN Err("NotEncrypted")
    ELSE With(subject(self).message,
              LAMBDA message :
                  AndThen(MapErr(SymmetricKey_decrypt(key, message), "CryptoError"),
                          LAMBDA encoded_cbor :
                              With(EncryptedMessage_opt_digest(message),
                                   LAMBDA subject_digest :
                                       IF ~subject_digest.some THEN Err("MissingDigest")
                                       ELSE AndThen(
                                           MapErr(AndThen(from_data(encoded_cbor),
                                                          from_untagged_cbor),
                                                  "CBORError"),
                                           LAMBDA e : Redigested(self, subject(e),
                                                                 subject_digest.d)))))

(***************************************************************************)
(* Compression (compress.rs) and elision.                                   *)
(***************************************************************************)
\* compress embedding the digest of the encoded bytes
compress_hashing_bytes(self) ==
    IF self.v = "Compressed" THEN Ok(self)
    ELSE IF self.v = "Encrypted" THEN Err("AlreadyEncrypted")
    ELSE IF self.v = "Elided" THEN Err("AlreadyElided")
    ELSE Ok(enclose(CompressedPayload(
                from_uncompressed_data(cbor_data(cbor(self)),
                                       SomeDigest(from_image(cbor_data(cbor(self))))))))

compress(self) ==
    IF self.v = "Compressed" THEN Ok(self)
    ELSE IF self.v = "Encrypted" THEN Err("AlreadyEncrypted")
    ELSE IF self.v = "Elided" THEN Err("AlreadyElided")
    ELSE Ok(enclose(CompressedPayload(
                from_uncompressed_data(cbor_data(cbor(self)), SomeDigest(digest(self))))))

\* uncompress without the comparison of the decoded envelope's digest
uncompress_unverified(self) ==
    IF self.v # "Compressed" THEN Err("NotCompressed")
    ELSE IF ~self.compressed.digest.some THEN Err("MissingDigest")
    ELSE IF self.compressed.digest.d # digest(self) THEN Err("InvalidDigest")
    ELSE AndThen(MapErr(Compressed_uncompress(self.compressed), "CompressError"),
                 LAMBDA a : MapErr(from_cbor_data(a), "CBORError"))

uncompress(self) ==
    IF self.v # "Compressed" THEN Err("NotCompressed")
    ELSE IF ~self.compressed.digest.some THEN Err("MissingDigest")
    ELSE IF self.compressed.digest.d # digest(self) THEN Err("InvalidDigest")
    ELSE AndThen(MapErr(Compressed_uncompress(self.compressed), "CompressError"),
                 LAMBDA a :
                     AndThen(MapErr(from_cbor_data(a), "CBORError"),
                             LAMBDA envelope :
                                 IF digest(envelope) # self.compressed.digest.d
                                 THEN Err("InvalidDigest")
                                 ELSE Ok(envelope)))

\* Envelope::replace_subject: the envelope with another subject under the
\* assertions it has
replace_subject(self, new_subject) ==
    IF self.v = "Node"
    THEN new_envelope_with_unchecked_assertions(new_subject, self.assertions)
    ELSE new_subject

compress_subject(self) ==
    IF is_compressed(subject(self)) THEN Ok(self)
    ELSE AndThen(compress(subject(self)),
                 LAMBDA new_subject : Ok(replace_subject(self, new_subject)))

uncompress_subject(self) ==
    IF is_compressed(subject(self))
    THEN AndThen(uncompress(subject(self)),
                 LAMBDA new_subject : Ok(replace_subject(self, new_subject)))
    ELSE Ok(self)

\* elide.rs: the envelope replaced by its digest
elide(self) == new_elided(digest(self))

\* wrap.rs: the envelope enclosed as a Wrapped envelope
wrap_envelope(self) == enclose(EnvelopePayload(self))

(***************************************************************************)
(* format_context.rs, function_registry.rs: the lazily initialised          *)
(* registries.  Each is a Once and a Mutex<Option<payload>>:                *)
(*   init[l]    the Once: "incomplete", "running" or "complete"             *)
(*   lazy_data[l]  the Option under the mutex                                *)
(*   holder[l]  the thread that holds the mutex, 0 when it is free          *)
(*   ran[l]     the threads that ran the initialiser, in order              *)
(* A thread executes get() step by step; stack[t] holds its frames, the     *)
(* innermost last, each [at |-> position, of |-> registry], because the     *)
(* initialiser of FORMAT_CONTEXT calls get() of the registries it reads.    *)
(* handed is every guard a call of get() has returned, with the Option it   *)
(* saw.                                                                     *)
(***************************************************************************)
Threads == 1..MaxThreads

Lazies == {"FUNCTIONS", "FORMAT_CONTEXT"}

\* an initialiser of FORMAT_CONTEXT that also reads FORMAT_CONTEXT itself
Deps_reentrant(l) ==
    IF l = "FORMAT_CONTEXT" THEN {"FUNCTIONS", "FORMAT_CONTEXT"} ELSE {}

\* the registries the initialiser of l reads through their own get()
Deps(l) == IF l = "FORMAT_CONTEXT" THEN {"FUNCTIONS"} ELSE {}

None == [some |-> FALSE]
Some == [some |-> TRUE]

Frame(at, l) == [at |-> at, of |-> l]

\* Once::call_once with the Once in the given state: run the initialiser,
\* wait for the thread that runs it, or return at once
call_once(state) ==
    IF state = "incomplete" THEN "run"
    ELSE IF state = "running" THEN "wait"
    ELSE "return"

\* get() locks the data without a look at the Once
get_entry_unguarded == "lock"

\* where get() starts: self.init.call_once(...)
get_entry == "call_once"

LazyStart ==
    /\ init = [l \in Lazies |-> "incomplete"]
    /\ lazy_data = [l \in Lazies |-> None]
    /\ holder = [l \in Lazies |-> 0]
    /\ ran = [l \in Lazies |-> <<>>]
    /\ stack = [t \in Threads |-> <<>>]
    /\ calls = [t \in Threads |-> 0]
    /\ handed = {}

Top(t) == stack[t][Len(stack[t])]

\* the frames of t with the innermost replaced
Goto(t, at) == [stack EXCEPT ![t][Len(stack[t])].at = at]

\* a thread calls get() of a registry whose guard it does not hold
Get(t) ==
    \E l \in Lazies :
        /\ stack[t] = <<>>
        /\ holder[l] # t
        /\ calls[t] < MaxCalls
        /\ stack' = [stack EXCEPT ![t] = <<Frame(get_entry, l)>>]
        /\ calls' = [calls EXCEPT ![t] = @ + 1]
        /\ UNCHANGED <<init, lazy_data, holder, ran, handed>>

\* self.init.call_once(|| ...): the first caller starts the initialiser, a
\* caller that finds it running waits, a later caller passes
CallOnce(t) ==
    /\ stack[t] # <<>> /\ Top(t).at = "call_once"
    /\ \/ /\ call_once(init[Top(t).of]) = "run"
          /\ init' = [init EXCEPT ![Top(t).of] = "running"]
          /\ ran' = [ran EXCEPT ![Top(t).of] = Append(@, t)]
          /\ stack' = Goto(t, IF Deps(Top(t).of) = {} THEN "store" ELSE "deps")
       \/ /\ call_once(init[Top(t).of]) = "return"
          /\ stack' = Goto(t, "lock")
          /\ UNCHANGED <<init, ran>>
    /\ UNCHANGED <<lazy_data, holder, calls, handed>>

\* the initialiser of FORMAT_CONTEXT: let functions_binding = FUNCTIONS.get()
GetDeps(t) ==
    /\ stack[t] # <<>> /\ Top(t).at = "deps"
    /\ \E d \in Deps(Top(t).of) :
           stack' = [stack EXCEPT ![t] = Append(Goto(t, "store")[t], Frame(get_entry, d))]
    /\ UNCHANGED <<init, lazy_data, holder, ran, calls, handed>>

\* the initialiser: *self.data.lock().unwrap() = Some(...); the guard of this
\* statement is dropped when the statement ends
Store(t) ==
    /\ stack[t] # <<>> /\ Top(t).at = "store"
    /\ holder[Top(t).of] = 0
    /\ lazy_data' = [lazy_data EXCEPT ![Top(t).of] = Some]
    /\ stack' = Goto(t, "finish")
    /\ UNCHANGED <<init, holder, ran, calls, handed>>

\* the initialiser returns: its bindings are dropped, which frees the
\* registries it read, and the Once is complete
Finish(t) ==
    /\ stack[t] # <<>> /\ Top(t).at = "finish"
    /\ holder' = [l \in Lazies |->
                     IF l \in Deps(Top(t).of) /\ holder[l] = t THEN 0 ELSE holder[l]]
    /\ init' = [init EXCEPT ![Top(t).of] = "complete"]
    /\ stack' = Goto(t, "lock")
    /\ UNCHANGED <<lazy_data, ran, calls, handed>>

\* self.data.lock().unwrap(): the guard get() returns
Lock(t) ==
    /\ stack[t] # <<>> /\ Top(t).at = "lock"
    /\ holder[Top(t).of] = 0
    /\ holder' = [holder EXCEPT ![Top(t).of] = t]
    /\ handed' = handed \cup {[of |-> Top(t).of, some |-> lazy_data[Top(t).of].some, t |-> t]}
    /\ stack' = [stack EXCEPT ![t] = Take(@, Len(@) - 1)]
    /\ UNCHANGED <<init, lazy_data, ran, calls>>

\* the caller drops a guard it was handed
DropGuard(t) ==
    \E l \in Lazies :
        /\ stack[t] = <<>>
        /\ holder[l] = t
        /\ holder' = [holder EXCEPT ![l] = 0]
        /\ UNCHANGED <<init, lazy_data, ran, stack, calls, handed>>

LazyInit ==
    /\ env = new_leaf(CborText(1))
    /\ ops = 0
    /\ last = [arg |-> [some |-> FALSE], err |-> "none", key |-> 0, ok |-> TRUE,
               op |-> "init", salted |-> FALSE]
    /\ origin = [kind |-> "none"]
    /\ visits = <<>>
    /\ LazyStart

LazyNext ==
    \E t \in Threads :
        /\ \/ Get(t)
           \/ CallOnce(t)
           \/ GetDeps(t)
           \/ Store(t)
           \/ Finish(t)
           \/ Lock(t)
           \/ DropGuard(t)
        /\ UNCHANGED coreVars

SpecLazy == LazyInit /\ [][LazyNext]_vars

\* a thread calls get() of a registry while it holds no guard of any registry
GetFree(t) ==
    \E l \in Lazies :
        /\ stack[t] = <<>>
        /\ \A k \in Lazies : holder[k] # t
        /\ calls[t] < MaxCalls
        /\ stack' = [stack EXCEPT ![t] = <<Frame(get_entry, l)>>]
        /\ calls' = [calls EXCEPT ![t] = @ + 1]
        /\ UNCHANGED <<init, lazy_data, holder, ran, handed>>

\* what a thread does once it has called get(): the steps of get() and the
\* drop of the guard it was handed
Proceed(t) ==
    /\ \/ CallOnce(t)
       \/ GetDeps(t)
       \/ Store(t)
       \/ Finish(t)
       \/ Lock(t)
       \/ DropGuard(t)
    /\ UNCHANGED coreVars

FreeNext ==
    \E t \in Threads :
        \/ GetFree(t) /\ UNCHANGED coreVars
        \/ Proceed(t)

\* callers that hold no guard when they call get(); a thread that can take
\* its next step inside get(), or drop its guard, eventually does
SpecLazyFree ==
    LazyInit /\ [][FreeNext]_vars /\ \A t \in Threads : WF_vars(Proceed(t))

(***************************************************************************)
(* walk.rs: the structural walk.  The visitor is modelled by what it is     *)
(* handed: a walk is the sequence of its visits, in the order of delivery.  *)
(***************************************************************************)
EdgeTypes == {"None", "Subject", "Assertion", "Predicate", "Object", "Wrapped"}

\* Default::default() of the visitor's Parent type
Default == <<>>

\* one call of the visitor, as the walk makes it
Visit(envelope, level, incoming_edge, parent) ==
    [e |-> envelope, edge |-> incoming_edge, level |-> level, parent |-> parent]

\* the visitor: it returns the envelopes on the way from the root to the one
\* it is handed
visit(envelope, level, incoming_edge, parent) == Append(parent, envelope)

\* _walk_structure visiting the assertions of a Node before its subject
RECURSIVE _walk_structure_assertions_first(_, _, _, _)
_walk_structure_assertions_first(self, level, incoming_edge, parent) ==
    <<Visit(self, level, incoming_edge, parent)>> \o
    (IF self.v = "Node"
     THEN Flatten([i \in 1..Len(self.assertions) |->
                      _walk_structure_assertions_first(
                          self.assertions[i], level + 1, "Assertion",
                          visit(self, level, incoming_edge, parent))]) \o
          _walk_structure_assertions_first(self.subject, level + 1, "Subject",
                                           visit(self, level, incoming_edge, parent))
     ELSE IF self.v = "Wrapped"
     THEN _walk_structure_assertions_first(self.envelope, level + 1, "Wrapped",
                                           visit(self, level, incoming_edge, parent))
     ELSE IF self.v = "Assertion"
     THEN _walk_structure_assertions_first(self.predicate, level + 1, "Predicate",
                                           visit(self, level, incoming_edge, parent)) \o
          _walk_structure_assertions_first(self.object, level + 1, "Object",
                                           visit(self, level, incoming_edge, parent))
     ELSE <<>>)

RECURSIVE _walk_structure(_, _, _, _)
_walk_structure(self, level, incoming_edge, parent) ==
    <<Visit(self, level, incoming_edge, parent)>> \o
    (IF self.v = "Node"
     THEN _walk_structure(self.subject, level + 1, "Subject",
                          visit(self, level, incoming_edge, parent)) \o
          Flatten([i \in 1..Len(self.assertions) |->
                      _walk_structure(self.assertions[i], level + 1, "Assertion",
                                      visit(self, level, incoming_edge, parent))])
     ELSE IF self.v = "Wrapped"
     THEN _walk_structure(self.envelope, level + 1, "Wrapped",
                          visit(self, level, incoming_edge, parent))
     ELSE IF self.v = "Assertion"
     THEN _walk_structure(self.predicate, level + 1, "Predicate",
                          visit(self, level, incoming_edge, parent)) \o
          _walk_structure(self.object, level + 1, "Object",
                          visit(self, level, incoming_edge, parent))
     ELSE <<>>)

walk_structure(self) == _walk_structure(self, 0, "None", Default)

RECURSIVE _walk_tree(_, _, _)
_walk_tree(self, level, parent) ==
    <<Visit(self, level, "None", parent)>> \o
    (IF self.v = "Node"
     THEN _walk_tree(self.subject, level + 1, visit(self, level, "None", parent)) \o
          Flatten([i \in 1..Len(self.assertions) |->
                      _walk_tree(self.assertions[i], level + 1,
                                 visit(self, level, "None", parent))])
     ELSE IF self.v = "Wrapped"
     THEN _walk_tree(self.envelope, level + 1, visit(self, level, "None", parent))
     ELSE IF self.v = "Assertion"
     THEN _walk_tree(self.predicate, level + 1, visit(self, level, "None", parent)) \o
          _walk_tree(self.object, level + 1, visit(self, level, "None", parent))
     ELSE <<>>)

walk_tree(self) == _walk_tree(self, 0, Default)

walk(self, hide_nodes) == IF hide_nodes THEN walk_tree(self) ELSE walk_structure(self)

(***************************************************************************)
(* The state machine.  env is the envelope the caller holds, ops counts the *)
(* calls that built it up, last records the latest call (operation,         *)
(* arguments, outcome), origin records how env came to be when that matters *)
(* to a later call:                                                         *)
(*   [kind |-> "none"]                                                      *)
(*   [kind |-> "encrypt", src, key]   env = encrypt_subject(src, key)       *)
(*   [kind |-> "compress", src]       env = compress(src)                   *)
(*   [kind |-> "adds", base]          env = base with assertions attached   *)
(*   [kind |-> "decrypt", src, key]   env = decrypt_subject(src, key)       *)
(*   [kind |-> "uncompress", src]     env = uncompress(src)                 *)
(*   [kind |-> "compress_subject", src]    env = compress_subject(src)      *)
(*   [kind |-> "uncompress_subject", src]  env = uncompress_subject(src)    *)
(* visits is what the latest call handed to a visitor, in order.            *)
(***************************************************************************)
\* the payloads, keys, nonces and salts the caller draws from
LeafValues == {CborText(1)}
KnownValues == {1}
Keys == {1, 2}
Nonces == {1}
Salts == {1}

Alice == new_leaf(CborText(1))
Bob == new_leaf(CborText(3))
KnowsBob == new_assertion_with_predobj(TextPayload(2), TextPayload(3))
KnowsCarol == new_assertion_with_predobj(TextPayload(2), TextPayload(4))
KnowsDave == new_assertion_with_predobj(TextPayload(2), TextPayload(5))

\* what a caller passes as an assertion: two assertions, two elided ones (one
\* of them the elided form of the first assertion), and a leaf, which is no
\* assertion
Candidates == {KnowsBob, KnowsCarol, elide(KnowsDave), elide(KnowsBob), Bob}

NoOrigin == [kind |-> "none"]

Call(op, arg, key, salted, res) ==
    [arg |-> arg,
     err |-> IF res.ok THEN "none" ELSE res.err,
     key |-> key,
     ok |-> res.ok,
     op |-> op,
     salted |-> salted]

\* the state after a call: a successful call hands its result to the caller,
\* a failed call leaves the caller with what it held
Step(op, arg, key, salted, res, newOrigin, cost) ==
    /\ res.ok => ops + cost <= MaxOps
    /\ last' = IF res.ok THEN Call(op, arg, key, salted, res)
                ELSE Call(op, NoEnvelope, 0, FALSE, res)
    /\ env' = IF res.ok THEN res.val ELSE env
    /\ ops' = IF res.ok THEN ops + cost ELSE ops
    /\ origin' = IF res.ok THEN newOrigin ELSE origin
    /\ visits' = <<>>
    /\ UNCHANGED lazyVars

\* the envelopes a caller starts from: a leaf, a wrapped leaf, a leaf with an
\* assertion, and a compressed leaf
Seeds ==
    {Alice,
     wrap_envelope(Alice),
     Unwrap(add_assertion_opt(Alice, SomeEnvelope(KnowsBob), FALSE, 0)),
     Unwrap(compress(Alice))}

Init ==
    /\ env \in Seeds
    /\ ops = 0
    /\ last = Call("init", NoEnvelope, 0, FALSE, Ok(env))
    /\ origin = NoOrigin
    /\ visits = <<>>
    /\ LazyStart

\* a fresh value replaces what the caller held
Fresh(op, e) ==
    /\ last' = Call(op, NoEnvelope, 0, FALSE, Ok(e))
    /\ env' = e
    /\ ops' = 0
    /\ origin' = NoOrigin
    /\ visits' = <<>>
    /\ UNCHANGED lazyVars

NewLeaf == \E c \in LeafValues : Fresh("new_leaf", enclose(CborPayload(c)))

NewKnownValue ==
    \E n \in KnownValues : Fresh("new_with_known_value", enclose(KnownValuePayload(n)))

NewAssertion ==
    Fresh("new_assertion_with_predobj",
          new_assertion_with_predobj(TextPayload(2), TextPayload(3)))

\* an assertion with the held envelope as its predicate
NestAssertion ==
    Step("nest_assertion", NoEnvelope, 0, FALSE,
         Ok(new_assertion_with_predobj(EnvelopePayload(env), TextPayload(3))),
         NoOrigin, 1)

\* an assertion whose predicate and object are the held envelope: the caller
\* passes one Rc<Envelope> twice, and Assertion::new keeps it as it is
ShareAssertion ==
    Step("share_assertion", NoEnvelope, 0, FALSE,
         Ok(new_assertion_with_predobj(EnvelopePayload(env), EnvelopePayload(env))),
         NoOrigin, 1)

Wrap == Step("wrap", NoEnvelope, 0, FALSE, Ok(wrap_envelope(env)), NoOrigin, 1)

\* the envelope a run of attachments started from
Attached ==
    IF origin.kind = "adds" THEN origin ELSE [base |-> env, kind |-> "adds"]

\* an attachment: the caller never holds more than MaxAssertions assertions
\* on one Node
AddStep(a, salt, salted, res, newOrigin, cost) ==
    /\ res.ok => Len(res.val.assertions) <= MaxAssertions
    /\ Step("add_assertion", SomeEnvelope(a), salt, salted, res, newOrigin, cost)

\* a run of attachments counts once against MaxOps
AddAssertion ==
    \E a \in Candidates :
        AddStep(a, 0, FALSE, add_assertion_opt(env, SomeEnvelope(a), FALSE, 0), Attached,
                IF origin.kind = "adds" THEN 0 ELSE 1)

AddSaltedAssertion ==
    \E a \in {KnowsBob, Bob}, salt \in Salts :
        AddStep(a, salt, TRUE, add_assertion_opt(env, SomeEnvelope(a), TRUE, salt),
                NoOrigin, 1)

EncryptSubject ==
    \E key \in Keys, nonce \in Nonces :
        Step("encrypt_subject", NoEnvelope, key, FALSE,
             encrypt_subject_opt(env, key, nonce),
             [key |-> key, kind |-> "encrypt", src |-> env], 1)

DecryptSubject ==
    \E key \in Keys :
        Step("decrypt_subject", NoEnvelope, key, FALSE, decrypt_subject(env, key),
             [key |-> key, kind |-> "decrypt", src |-> env], 0)

Compress ==
    Step("compress", NoEnvelope, 0, FALSE, compress(env),
         IF env.v = "Compressed" THEN origin ELSE [kind |-> "compress", src |-> env],
         IF env.v = "Compressed" THEN 0 ELSE 1)

Uncompress ==
    Step("uncompress", NoEnvelope, 0, FALSE, uncompress(env),
         [kind |-> "uncompress", src |-> env], 0)

CompressSubject ==
    Step("compress_subject", NoEnvelope, 0, FALSE, compress_subject(env),
         [kind |-> "compress_subject", src |-> env],
         IF is_compressed(subject(env)) THEN 0 ELSE 1)

UncompressSubject ==
    Step("uncompress_subject", NoEnvelope, 0, FALSE, uncompress_subject(env),
         [kind |-> "uncompress_subject", src |-> env], 0)

Elide == Step("elide", NoEnvelope, 0, FALSE, Ok(elide(env)), NoOrigin, 1)

\* the held envelope encoded and decoded again
RoundTrip ==
    Step("round_trip", NoEnvelope, 0, FALSE, from_cbor_data(encode(env)), NoOrigin, 0)

\* an array read off the wire: the held envelope followed by assertions, which
\* the sender may have repeated or left unsorted
WireAssertions ==
    {<<>>, <<KnowsBob>>, <<KnowsBob, KnowsBob>>, <<KnowsCarol, KnowsBob>>}

DecodeArray ==
    \E as \in WireAssertions :
        Step("decode", NoEnvelope, Len(as), FALSE,
             from_cbor_data(cbor_data(Tagged(ENVELOPE,
                 CborArray(<<tagged_cbor(env)>>
                           \o [i \in 1..Len(as) |-> tagged_cbor(as[i])])))),
             NoOrigin, 1)

\* the payloads a caller promotes to an envelope: the held envelope and one
\* payload of every other kind, the encrypted message and the compressed
\* blob carrying the digest of what they hold
Payloads ==
    {EnvelopePayload(env),
     KnownValuePayload(1),
     AssertionPayload(Assertion_new(TextPayload(2), TextPayload(3))),
     EncryptedPayload(encrypt_with_digest(1, cbor_data(CborText(1)),
                                          from_image(cbor_data(CborText(1))), 1)),
     CompressedPayload(from_uncompressed_data(cbor_data(CborText(1)),
                           SomeDigest(from_image(cbor_data(CborText(1)))))),
     CborPayload(CborText(1)),
     TextPayload(1),
     UIntPayload(1)}

\* what a sender may declare as the digest of a message or a blob: the
\* digest of the held envelope, or none
ClaimedDigests == {SomeDigest(digest(env)), NoDigest}

\* the message a sender makes of a plaintext and a declared digest
SealedWith(key, plaintext, claimed, nonce) ==
    IF claimed.some THEN encrypt_with_digest(key, plaintext, claimed.d, nonce)
    ELSE SymmetricKey_encrypt(key, plaintext, nonce)

\* plaintexts a sender may encrypt: the untagged CBOR of the held envelope,
\* that of another envelope, that of a Node over the held envelope, and the
\* tagged CBOR of the held envelope
WirePlaintexts ==
    {cbor_data(untagged_cbor(env)),
     cbor_data(untagged_cbor(Bob)),
     cbor_data(untagged_cbor(new_envelope_with_unchecked_assertions(env, <<KnowsCarol>>))),
     encode(env)}

\* the bytes of an Encrypted envelope a sender made, alone or as the subject
\* of a Node
EncryptedWire(m, as) ==
    cbor_data(Tagged(ENVELOPE,
        IF as = <<>> THEN EncryptedMessage_tagged_cbor(m)
        ELSE CborArray(<<Tagged(ENVELOPE, EncryptedMessage_tagged_cbor(m))>>
                       \o [i \in 1..Len(as) |-> tagged_cbor(as[i])])))

\* an Encrypted envelope read off the wire, whose sender chose plaintext and
\* declared digest freely, working from an envelope the caller starts from
DecodeEncrypted ==
    /\ ops = 0
    /\ \E key \in Keys, plaintext \in WirePlaintexts, claimed \in ClaimedDigests,
          as \in {<<>>, <<KnowsBob>>} :
           Step("decode_encrypted", NoEnvelope, key, FALSE,
                from_cbor_data(EncryptedWire(SealedWith(key, plaintext, claimed, 1), as)),
                NoOrigin, 1)

\* data a sender may compress: the encoded held envelope, another encoded
\* envelope, and bytes that are no tagged envelope
WireData == {encode(env), encode(Bob), cbor_data(untagged_cbor(env))}

CompressedWire(z) == cbor_data(Tagged(ENVELOPE, Compressed_tagged_cbor(z)))

\* the blob a sender makes of data, declaring a size that may be wrong
Declared(d, claimed, size) ==
    [compressed_data |-> from_uncompressed_data(d, claimed).compressed_data,
     digest |-> claimed,
     uncompressed_size |-> size]

\* a Compressed envelope read off the wire, whose sender chose data, declared
\* digest and declared size freely, working from an envelope the caller
\* starts from
DecodeCompressed ==
    /\ ops = 0
    /\ \E d \in WireData, claimed \in ClaimedDigests, wrong \in {0, 1} :
           Step("decode_compressed", NoEnvelope, 0, FALSE,
                from_cbor_data(CompressedWire(Declared(d, claimed, Len(d) + wrong))),
                NoOrigin, 1)

\* an encrypted message and a compressed blob made without a digest
UndigestedPayloads ==
    {EncryptedPayload(SymmetricKey_encrypt(1, cbor_data(CborText(1)), 1)),
     CompressedPayload(from_uncompressed_data(cbor_data(CborText(1)), NoDigest))}

\* cross-module payload acceptance: the payload promoted by into_envelope
IntoEnvelope ==
    \E x \in Payloads :
        Step("into_envelope",
             IF x.p = "envelope" THEN SomeEnvelope(x.e) ELSE NoEnvelope,
             0, FALSE, Ok(into_envelope(x)), NoOrigin, 1)

\* a walk of the held envelope with a visitor that records what it is handed
Walk ==
    \E hide_nodes \in BOOLEAN :
        /\ visits' = walk(env, hide_nodes)
        /\ last' = Call("walk", NoEnvelope, 0, hide_nodes, Ok(env))
        /\ UNCHANGED <<env, ops, origin>>
        /\ UNCHANGED lazyVars

Next ==
    \/ NewLeaf
    \/ Wrap
    \/ NewKnownValue
    \/ NewAssertion
    \/ NestAssertion
    \/ AddAssertion
    \/ AddSaltedAssertion
    \/ EncryptSubject
    \/ DecryptSubject
    \/ Compress
    \/ Uncompress
    \/ Elide
    \/ RoundTrip
    \/ DecodeArray

Spec == Init /\ [][Next]_vars

\* a caller that is handed payloads and bytes from outside, opens what it
\* received and walks what it holds
NextWire ==
    \/ NewLeaf
    \/ NewKnownValue
    \/ NewAssertion
    \/ Wrap
    \/ ShareAssertion
    \/ IntoEnvelope
    \/ EncryptSubject
    \/ Compress
    \/ DecodeEncrypted
    \/ DecodeCompressed
    \/ DecryptSubject
    \/ Uncompress
    \/ Walk
    \/ CompressSubject
    \/ UncompressSubject
    \/ Elide

SpecWire == Init /\ [][NextWire]_vars

\* a caller that builds an envelope up and walks it
NextWalk ==
    \/ NewLeaf
    \/ NewAssertion
    \/ NestAssertion
    \/ Wrap
    \/ AddAssertion
    \/ DecodeArray
    \/ Walk

SpecWalk == Init /\ [][NextWalk]_vars

(***************************************************************************)
(* Vocabulary of the properties.                                           *)
(***************************************************************************)
\* every envelope inside e, e included
RECURSIVE Parts(_)
Parts(e) ==
    {e} \cup
    (IF e.v = "Node"
     THEN Parts(e.subject) \cup UNION {Parts(e.assertions[i]) : i \in 1..Len(e.assertions)}
     ELSE IF e.v = "Wrapped" THEN Parts(e.envelope)
     ELSE IF e.v = "Assertion" THEN Parts(e.predicate) \cup Parts(e.object)
     ELSE {})

\* the candidates add_assertion accepts
Admissible == {a \in Candidates : is_subject_assertion(a) \/ is_subject_obscured(a)}

DistinctDigests(S) == \A a, b \in S : a # b => digest(a) # digest(b)

\* the orders in which the members of S can be added
Perms(S) == {p \in [1..Cardinality(S) -> S] : \A i, j \in DOMAIN p : i # j => p[i] # p[j]}

\* add_assertion applied to the members of as in turn
RECURSIVE AddAll(_, _)
AddAll(e, as) ==
    IF as = <<>> THEN e ELSE AddAll(Unwrap(add_assertion(e, Head(as))), Tail(as))

\* the digest the table of variants derives from the content of e
Derived(e) ==
    IF e.v = "Leaf" THEN from_image(cbor_data(e.cbor))
    ELSE IF e.v = "Wrapped" THEN from_digests(<<digest(e.envelope)>>)
    ELSE IF e.v = "Assertion" THEN from_digests(<<digest(e.predicate), digest(e.object)>>)
    ELSE IF e.v = "Node"
         THEN from_digests(<<digest(e.subject)>> \o Digests(sort_by_digest(e.assertions)))
    ELSE IF e.v = "KnownValue" THEN KnownValue_digest(e.value)
    ELSE IF e.v = "Encrypted" THEN EncryptedMessage_opt_digest(e.message).d
    ELSE IF e.v = "Compressed" THEN e.compressed.digest.d
    ELSE e.digest

\* e holds no Encrypted and no Compressed envelope
Plain(e) == \A x \in Parts(e) : x.v \notin {"Encrypted", "Compressed"}

\* a and b have the same variant at every position
RECURSIVE SameShape(_, _)
SameShape(a, b) ==
    /\ a.v = b.v
    /\ a.v = "Node" =>
           /\ SameShape(a.subject, b.subject)
           /\ Len(a.assertions) = Len(b.assertions)
           /\ \A i \in 1..Len(a.assertions) : SameShape(a.assertions[i], b.assertions[i])
    /\ a.v = "Wrapped" => SameShape(a.envelope, b.envelope)
    /\ a.v = "Assertion" =>
           SameShape(a.predicate, b.predicate) /\ SameShape(a.object, b.object)

\* the Node e built again from its assertions in the opposite order
Reordered(e) ==
    IF e.v = "Node"
    THEN new_envelope_with_unchecked_assertions(e.subject, Reverse(e.assertions))
    ELSE e

\* the value of a result, as a set
Values(r) == IF r.ok THEN {r.val} ELSE {}

\* the assertion  Alice: (knows Bob), whose digest is that of the Node
\* Alice [knows Bob]
AliceKnowsBob ==
    new_assertion_with_predobj(EnvelopePayload(Alice), EnvelopePayload(KnowsBob))

\* envelopes to compare the held one with: it obscured, rebuilt, decoded, what
\* it was made from, and the envelopes a caller starts from
Peers ==
    {elide(env), Reordered(env)}
        \cup Values(compress(env))
        \cup Values(from_cbor_data(encode(env)))
        \cup (IF origin.kind \in {"encrypt", "compress"} THEN {origin.src} ELSE {})
        \cup Seeds \cup Candidates \cup {AliceKnowsBob}

(***************************************************************************)
(* C1  CBOR round trip.                                                    *)
(***************************************************************************)
\* C1: decoding the tagged CBOR that encoding the held envelope produced
\* succeeds and yields an envelope with the digest of the held envelope,
\* whatever its variant and nesting.
C1_RoundTrip ==
    With(from_cbor_data(encode(env)),
         LAMBDA r : r.ok /\ digest(r.val) = digest(env))

(***************************************************************************)
(* C2  Obscuring preserves the digest.                                     *)
(***************************************************************************)
\* C2: whenever encrypt_subject, compress or elide returns an envelope for the
\* held envelope, that envelope has the digest of the held one, and the
\* assert_eq! that ends encrypt_subject_opt never fails.
C2_ObscuringPreservesDigest ==
    /\ \A key \in Keys, nonce \in Nonces :
           With(encrypt_subject_opt(env, key, nonce),
                LAMBDA r : /\ ~r.ok => r.err # "panic"
                           /\ r.ok => digest(r.val) = digest(env))
    /\ With(compress(env), LAMBDA r : r.ok => digest(r.val) = digest(env))
    /\ digest(elide(env)) = digest(env)

\* C2 witness: encrypt_subject has returned a Node whose subject alone is
\* encrypted and whose digest is that of the Node it was given.
C2_Witness ==
    /\ last.op = "encrypt_subject" /\ last.ok
    /\ origin.kind = "encrypt" /\ origin.src.v = "Node"
    /\ env.v = "Node" /\ env.subject.v = "Encrypted"
    /\ env.assertions = origin.src.assertions
    /\ digest(env) = digest(origin.src)

(***************************************************************************)
(* C3  Node shape.                                                         *)
(***************************************************************************)
\* C3: every Node in the held envelope has at least one assertion, has its
\* assertions sorted ascending by digest, and holds no two assertions with
\* the same digest.
C3_NodeShape ==
    \A n \in Parts(env) :
        n.v = "Node" =>
            /\ Len(n.assertions) >= 1
            /\ \A i, j \in 1..Len(n.assertions) :
                   i < j => /\ ~DigestLess(digest(n.assertions[j]), digest(n.assertions[i]))
                            /\ digest(n.assertions[i]) # digest(n.assertions[j])

(***************************************************************************)
(* C4  Assertion admissibility.                                            *)
(***************************************************************************)
\* C4: every entry of the assertion list of every Node in the held envelope
\* has top-level variant Assertion, Encrypted, Compressed or Elided.
C4_Admissibility ==
    \A n \in Parts(env) :
        n.v = "Node" =>
            \A i \in 1..Len(n.assertions) :
                n.assertions[i].v \in {"Assertion", "Encrypted", "Compressed", "Elided"}

(***************************************************************************)
(* C5  Digest closure.                                                     *)
(***************************************************************************)
\* C5: every envelope in the held envelope stores the digest its variant
\* derives from its content; an Encrypted or Compressed one carries the
\* digest it stands for.
C5_DigestClosure ==
    \A e \in Parts(env) :
        /\ digest(e) = Derived(e)
        /\ e.v = "Encrypted" => EncryptedMessage_has_digest(e.message)
        /\ e.v = "Compressed" => Compressed_has_digest(e.compressed)

\* C5 witness: the held envelope is a Node with several assertions on a
\* wrapped subject, built by add_assertion, and every digest in it is the
\* derived one.
C5_Witness ==
    /\ last.op = "add_assertion" /\ last.ok
    /\ env.v = "Node" /\ env.subject.v = "Wrapped" /\ Len(env.assertions) >= 2
    /\ \A e \in Parts(env) : digest(e) = Derived(e)

(***************************************************************************)
(* C6  Order independence.                                                 *)
(***************************************************************************)
\* C6: for every set of admissible assertions with pairwise distinct digests,
\* adding them to the held envelope with add_assertion gives, in every order,
\* a Node with the same digest and the same assertion sequence.
C6_OrderIndependence ==
    \A S \in SUBSET Admissible :
        DistinctDigests(S) /\ S # {} =>
            With(AddAll(env, CHOOSE p \in Perms(S) : TRUE),
                 LAMBDA n :
                     \A q \in Perms(S) :
                         With(AddAll(env, q),
                              LAMBDA m : /\ m.v = "Node"
                                         /\ digest(m) = digest(n)
                                         /\ m.assertions = n.assertions))

\* C6 witness: a run of add_assertion calls has put three assertions on an
\* envelope that was no Node, and the held Node is what the opposite order of
\* adding them gives.
C6_Witness ==
    /\ last.op = "add_assertion" /\ last.ok
    /\ origin.kind = "adds" /\ origin.base.v # "Node"
    /\ env.v = "Node" /\ Len(env.assertions) >= 3
    /\ AddAll(origin.base, Reverse(env.assertions)) = env

(***************************************************************************)
(* C7  Deduplication.                                                      *)
(***************************************************************************)
\* C7: unsalted add_assertion is idempotent: adding an assertion whose digest
\* the held Node already contains returns the held Node unchanged, adding the
\* same assertion twice gives what adding it once gives, and adding
\* (knows, Bob), (knows, Carol), (knows, Bob) leaves exactly two assertions.
C7_Deduplication ==
    /\ \A a \in Admissible :
           With(add_assertion(env, a),
                LAMBDA once :
                    /\ once.ok
                    /\ (env.v = "Node"
                        /\ \E i \in 1..Len(env.assertions) :
                               digest(env.assertions[i]) = digest(a))
                           => once.val = env
                    /\ With(add_assertion(once.val, a),
                            LAMBDA twice :
                                /\ twice.ok
                                /\ digest(twice.val) = digest(once.val)
                                /\ Len(twice.val.assertions) = Len(once.val.assertions)))
    /\ Len(AddAll(env, <<KnowsBob, KnowsCarol, KnowsBob>>).assertions)
           = Len(AddAll(env, <<KnowsBob, KnowsCarol>>).assertions)
    /\ env.v # "Node" =>
           Len(AddAll(env, <<KnowsBob, KnowsCarol, KnowsBob>>).assertions) = 2

\* C7 witness: add_assertion has returned the held Node for an assertion that
\* is not among its entries, because an entry with the same digest is.
C7_Witness ==
    /\ last.op = "add_assertion" /\ last.ok /\ ~last.salted
    /\ env.v = "Node"
    /\ \A i \in 1..Len(env.assertions) : env.assertions[i] # last.arg.e
    /\ \E i \in 1..Len(env.assertions) : digest(env.assertions[i]) = digest(last.arg.e)

(***************************************************************************)
(* C8  Decryption inverse.                                                 *)
(***************************************************************************)
\* C8: whenever encrypt_subject succeeds on the held envelope under a key,
\* decrypt_subject of the result under that key succeeds and returns an
\* envelope with the digest of the held one.
C8_DecryptionInverse ==
    \A key \in Keys, nonce \in Nonces :
        With(encrypt_subject_opt(env, key, nonce),
             LAMBDA c :
                 c.ok => With(decrypt_subject(c.val, key),
                              LAMBDA r : r.ok /\ digest(r.val) = digest(env)))

(***************************************************************************)
(* C9  Decompression inverse.                                              *)
(***************************************************************************)
\* C9: when the held envelope is neither Encrypted nor Elided, compress
\* succeeds on it and uncompress of the result succeeds and returns an
\* envelope with the digest of the held one.
C9_DecompressionInverse ==
    env.v \notin {"Encrypted", "Elided"} =>
        With(compress(env),
             LAMBDA c :
                 c.ok /\ With(uncompress(c.val),
                              LAMBDA r : r.ok /\ digest(r.val) = digest(env)))

(***************************************************************************)
(* C10  Equal digests and equal bytes.                                     *)
(***************************************************************************)
\* C10 as stated: an envelope with the digest of the held one encodes to the
\* bytes the held one encodes to.
C10_EqualDigestEqualBytes ==
    \A e \in Peers : digest(e) = digest(env) => encode(e) = encode(env)

\* C10 amended: an envelope with the digest of the held one encodes to the
\* bytes the held one encodes to when the two have the same variant at every
\* position and neither holds an Encrypted or a Compressed envelope.
C10_EqualDigestEqualBytesSameShape ==
    \A e \in Peers :
        digest(e) = digest(env) /\ SameShape(e, env) /\ Plain(e) /\ Plain(env)
            => encode(e) = encode(env)

\* C10 witness: the held Node, built by add_assertion, and the Node built
\* from its assertions in the opposite order have one digest, one shape and
\* one encoding.
C10_Witness ==
    /\ last.op = "add_assertion" /\ last.ok
    /\ env.v = "Node" /\ Len(env.assertions) >= 2 /\ Plain(env)
    /\ digest(Reordered(env)) = digest(env)
    /\ SameShape(Reordered(env), env)
    /\ encode(Reordered(env)) = encode(env)

(***************************************************************************)
(* C11  Walk completeness.                                                 *)
(***************************************************************************)
\* C11: a walk of the held envelope, in structure or in tree mode, hands
\* every envelope inside it to the visitor exactly once, also an envelope
\* that two parents share.
C11_WalkVisitsOnce ==
    last.op = "walk" =>
        \A x \in Parts(env) :
            Cardinality({i \in 1..Len(visits) : visits[i].e = x}) = 1


(***************************************************************************)
(* C12  One-shot initialisation of the registries.                         *)
(***************************************************************************)
\* C12: under every interleaving of threads that call get(), the initialiser
\* of a registry runs at most once and has run exactly once and completed
\* whenever a thread holds a guard of the registry, and every guard handed to
\* a caller saw an initialised (Some) payload.
C12_OneShotInit ==
    /\ \A l \in Lazies :
           /\ Len(ran[l]) <= 1
           /\ init[l] = "complete" => Len(ran[l]) = 1 /\ lazy_data[l] = Some
           /\ holder[l] # 0 => init[l] = "complete"
    /\ \A g \in handed : g.some /\ init[g.of] = "complete"

\* C12 witness: two threads hold guards at once, one of FORMAT_CONTEXT and
\* one of FUNCTIONS, each of a registry whose initialiser the other thread
\* ran, and a guard of each registry was handed to each thread.
C12_Witness ==
    /\ \E t, u \in Threads :
           /\ t # u
           /\ holder["FORMAT_CONTEXT"] = t /\ ran["FORMAT_CONTEXT"] = <<u>>
           /\ holder["FUNCTIONS"] = u
    /\ \A g \in handed : g.some
    /\ {g.t : g \in handed} = Threads

(***************************************************************************)
(* C13  Assertion::new and the Enclose capability.                         *)
(***************************************************************************)
\* C13: Assertion::new encloses each argument: with the held envelope passed
\* as predicate (or as object), the predicate (or object) of the assertion is
\* the held envelope wrapped, and the digest of the assertion is from_digests
\* of the digests of the enclosed predicate and object.
C13_AssertionNewEncloses ==
    \A other \in {EnvelopePayload(env), TextPayload(3), KnownValuePayload(1)} :
        /\ With(Assertion_new(EnvelopePayload(env), other),
                LAMBDA a :
                    /\ a.predicate = enclose(EnvelopePayload(env))
                    /\ a.object = enclose(other)
                    /\ a.digest = from_digests(<<digest(enclose(EnvelopePayload(env))),
                                                 digest(enclose(other))>>))
        /\ With(Assertion_new(other, EnvelopePayload(env)),
                LAMBDA a :
                    /\ a.predicate = enclose(other)
                    /\ a.object = enclose(EnvelopePayload(env))
                    /\ a.digest = from_digests(<<digest(enclose(other)),
                                                 digest(enclose(EnvelopePayload(env)))>>))

(***************************************************************************)
(* C14  Enclose and IntoEnvelope.                                          *)
(***************************************************************************)
\* C14: for every payload that is not an envelope, enclose and into_envelope
\* give envelopes of the same variant and digest; for the held envelope
\* into_envelope gives the envelope itself and enclose gives it wrapped.
C14_EncloseVersusIntoEnvelope ==
    \A x \in Payloads :
        IF x.p = "envelope"
        THEN /\ into_envelope(x) = x.e
             /\ enclose(x) = wrap_envelope(x.e)
             /\ enclose(x).v = "Wrapped" /\ enclose(x).envelope = x.e
        ELSE /\ into_envelope(x).v = enclose(x).v
             /\ digest(into_envelope(x)) = digest(enclose(x))

\* C14 witness: into_envelope has been handed the envelope the caller held, a
\* Node, and returned it as it was, where enclose gives a Wrapped envelope of
\* another digest.
C14_Witness ==
    /\ last.op = "into_envelope" /\ last.ok /\ last.arg.some
    /\ env = last.arg.e /\ env.v = "Node"
    /\ enclose(EnvelopePayload(env)).v = "Wrapped"
    /\ digest(enclose(EnvelopePayload(env))) # digest(env)

(***************************************************************************)
(* C15  Enclose and the direct constructors.                               *)
(***************************************************************************)
\* the constructor that matches a payload that is no envelope
Direct(x) ==
    IF x.p = "known_value" THEN new_with_known_value(x.n)
    ELSE IF x.p = "assertion" THEN new_with_assertion(x.a)
    ELSE IF x.p = "compressed" THEN Unwrap(new_with_compressed(x.c))
    ELSE IF x.p = "cbor" THEN new_leaf(x.c)
    ELSE IF x.p = "text" THEN new_leaf(CborText(x.t))
    ELSE new_leaf(CborUInt(x.n))

\* a string, an integer, a CBOR value, a known value, a compressed blob, and
\* assertions, one of them about the held envelope
PlainPayloads ==
    {x \in Payloads : x.p \notin {"envelope", "encrypted"}}
        \cup {AssertionPayload(Assertion_new(EnvelopePayload(env), TextPayload(3)))}

\* C15: for every payload that is no envelope, enclose gives the envelope
\* the matching direct constructor gives: same variant, same digest, same
\* encoded form.
C15_EncloseIsConstructor ==
    \A x \in PlainPayloads :
        /\ enclose(x).v = Direct(x).v
        /\ digest(enclose(x)) = digest(Direct(x))
        /\ encode(enclose(x)) = encode(Direct(x))

\* C15 witness: the caller holds what enclose made of a known value, and it
\* is the KnownValue envelope new_with_known_value makes, with its encoding.
C15_Witness ==
    /\ last.op = "new_with_known_value" /\ last.ok
    /\ env.v = "KnownValue"
    /\ env = new_with_known_value(env.value)
    /\ encode(env) = encode(enclose(KnownValuePayload(env.value)))

(***************************************************************************)
(* C16  Failures are error values.                                         *)
(***************************************************************************)
\* C16: no public operation panics: enclose of an encrypted message or of a
\* compressed blob, with or without a digest, gives an envelope or an error;
\* add_assertion of any envelope to the held one, decoding, compress,
\* uncompress and decrypt_subject return a value or an error value.
C16_NoPanic ==
    /\ \A x \in Payloads \cup UndigestedPayloads : enclose(x) # Panic
    /\ \A a \in Candidates :
           With(add_assertion(env, a), LAMBDA r : r.ok \/ r.err # "panic")
    /\ With(from_cbor_data(encode(env)), LAMBDA r : r.ok \/ r.err # "panic")
    /\ With(compress(env), LAMBDA r : r.ok \/ r.err # "panic")
    /\ With(uncompress(env), LAMBDA r : r.ok \/ r.err # "panic")
    /\ \A key \in Keys :
           With(decrypt_subject(env, key), LAMBDA r : r.ok \/ r.err # "panic")

(***************************************************************************)
(* C17  Decoding a message without a digest.                               *)
(***************************************************************************)
\* C17: decoding an Encrypted or a Compressed envelope whose message or blob
\* carries no digest gives no envelope and fails with MissingDigest, the
\* error of the constructors.
C17_DecodeMissingDigest ==
    /\ \A key \in Keys, plaintext \in WirePlaintexts :
           With(from_cbor_data(EncryptedWire(SealedWith(key, plaintext, NoDigest, 1), <<>>)),
                LAMBDA r : ~r.ok /\ r.err = "MissingDigest")
    /\ \A d \in WireData :
           With(from_cbor_data(CompressedWire(from_uncompressed_data(d, NoDigest))),
                LAMBDA r : ~r.ok /\ r.err = "MissingDigest")

(***************************************************************************)
(* C18  encrypt_subject on a Node.                                         *)
(***************************************************************************)
\* C18: on a held Node encrypt_subject succeeds exactly when encrypt_subject
\* of the Node's subject succeeds; the result is then a Node whose subject is
\* that encrypted subject and whose assertions are the held ones, and
\* otherwise the error is the same; on a held Encrypted or Elided envelope it
\* fails with AlreadyEncrypted or AlreadyElided.
C18_NodeEncryptIsSubjectEncrypt ==
    \A key \in Keys, nonce \in Nonces :
        With(encrypt_subject_opt(env, key, nonce),
             LAMBDA r :
                 /\ env.v = "Encrypted" => ~r.ok /\ r.err = "AlreadyEncrypted"
                 /\ env.v = "Elided" => ~r.ok /\ r.err = "AlreadyElided"
                 /\ env.v = "Node" =>
                        With(encrypt_subject_opt(env.subject, key, nonce),
                             LAMBDA s :
                                 /\ r.ok <=> s.ok
                                 /\ s.ok /\ r.ok =>
                                        /\ r.val.v = "Node"
                                        /\ r.val.subject = s.val
                                        /\ r.val.assertions = env.assertions
                                 /\ ~s.ok /\ ~r.ok => r.err = s.err))

(***************************************************************************)
(* C19  decrypt_subject verifies digests.                                  *)
(***************************************************************************)
\* the digest the message of an Encrypted envelope declares
Authenticated(e) == EncryptedMessage_opt_digest(e.message).d

ErrorsOfDecrypt == {"CryptoError", "CBORError", "MissingDigest", "InvalidDigest"}

\* C19 as stated: decrypt_subject of the held envelope, which may have been
\* decoded from bytes whose plaintext does not match the declared digest,
\* fails with NotEncrypted when the subject is not Encrypted, and otherwise
\* fails or returns an envelope with the digest of the held one, whose
\* subject has the digest the message declares and, for a held Node, whose
\* assertions are the held ones.
C19_DecryptVerified ==
    \A key \in Keys :
        With(decrypt_subject(env, key),
             LAMBDA r :
                 IF subject(env).v # "Encrypted"
                 THEN ~r.ok /\ r.err = "NotEncrypted"
                 ELSE /\ ~r.ok => r.err \in ErrorsOfDecrypt
                      /\ r.ok =>
                             /\ digest(r.val) = digest(env)
                             /\ digest(subject(r.val)) = Authenticated(subject(env))
                             /\ env.v = "Node" => r.val.assertions = env.assertions)

\* C19 amended: the same, where the envelope that has the declared digest is
\* the decrypted subject: the subject of the result for a held Node, the
\* result itself otherwise.
C19_DecryptVerifiedSubject ==
    \A key \in Keys :
        With(decrypt_subject(env, key),
             LAMBDA r :
                 IF subject(env).v # "Encrypted"
                 THEN ~r.ok /\ r.err = "NotEncrypted"
                 ELSE /\ ~r.ok => r.err \in ErrorsOfDecrypt
                      /\ r.ok =>
                             /\ digest(r.val) = digest(env)
                             /\ IF env.v = "Node"
                                THEN /\ r.val.v = "Node"
                                     /\ digest(r.val.subject) = Authenticated(env.subject)
                                     /\ r.val.assertions = env.assertions
                                ELSE digest(r.val) = Authenticated(env))

\* C19 witness: decrypt_subject has opened a Node that was decoded from the
\* wire, and the held result has the digest of that Node, its assertions,
\* and a subject with the digest the message declared.
C19_Witness ==
    /\ last.op = "decrypt_subject" /\ last.ok
    /\ origin.kind = "decrypt" /\ origin.src.v = "Node"
    /\ env.v = "Node" /\ env.subject.v # "Encrypted"
    /\ digest(env) = digest(origin.src)
    /\ digest(env.subject) = Authenticated(origin.src.subject)
    /\ env.assertions = origin.src.assertions

(***************************************************************************)
(* C20  uncompress verifies the digest.                                    *)
(***************************************************************************)
\* the envelope the data of a Compressed envelope decodes to, if any
Decoded(e) ==
    AndThen(Compressed_uncompress(e.compressed), from_cbor_data)

SameOutcome(e, r, s) ==
    /\ r.ok = s.ok
    /\ ~r.ok => r.err = s.err
    /\ r.ok => /\ digest(r.val) = digest(e)
               /\ IF e.v = "Node"
                  THEN /\ r.val.v = "Node"
                       /\ r.val.subject = s.val
                       /\ r.val.assertions = e.assertions
                  ELSE r.val = s.val

\* C21: on the held envelope, compress_subject has the outcome of compress
\* of its subject and uncompress_subject has the outcome of uncompress of its
\* subject; in particular uncompress_subject fails with NotCompressed when
\* the subject is not Compressed.
C21_SubjectOutcome ==
    /\ SameOutcome(env, compress_subject(env), compress(subject(env)))
    /\ SameOutcome(env, uncompress_subject(env), uncompress(subject(env)))

(***************************************************************************)
(* C22  Walk ordering.                                                     *)
(***************************************************************************)
\* the children of an envelope with the edge that leads to each, in the
\* order a Node, a Wrapped and an Assertion hold them
Children(x) ==
    IF x.v = "Node"
    THEN <<[e |-> x.subject, edge |-> "Subject"]>> \o
         [i \in 1..Len(x.assertions) |-> [e |-> x.assertions[i], edge |-> "Assertion"]]
    ELSE IF x.v = "Wrapped" THEN <<[e |-> x.envelope, edge |-> "Wrapped"]>>
    ELSE IF x.v = "Assertion"
    THEN <<[e |-> x.predicate, edge |-> "Predicate"],
           [e |-> x.object, edge |-> "Object"]>>
    ELSE <<>>

\* the members of a set of numbers in ascending order
Ascending(S) ==
    [k \in 1..Cardinality(S) |-> CHOOSE i \in S : Cardinality({m \in S : m < i}) = k - 1]

\* the visits of a walk w made for the children of the envelope of visit j:
\* the later visits one level down, up to the next visit that is not deeper
ChildVisits(w, j) ==
    Ascending({i \in (j + 1)..Len(w) :
                  /\ w[i].level = w[j].level + 1
                  /\ \A m \in (j + 1)..i : w[m].level > w[j].level})

\* the envelopes and levels of a walk, in order
Course(w) == [i \in 1..Len(w) |-> <<w[i].e, w[i].level>>]

\* C22: a walk of the held envelope visits the root first, at level 0 with
\* edge None and the default parent value; no visit is more than one level
\* below the visit before it; the visits made for the children of a visited
\* envelope are, in this order, its subject and then its assertions (a Node),
\* its inner envelope (a Wrapped), its predicate and then its object (an
\* Assertion), each one level down, each handed the value the visitor
\* returned for the parent, each with the edge of its kind in structure mode
\* and with edge None in tree mode; the assertions of a visited Node are in
\* ascending order of digest; and the other mode visits the same envelopes
\* in the same order at the same levels.
C22_WalkOrdering ==
    last.op = "walk" =>
        /\ Len(visits) >= 1
        /\ visits[1] = Visit(env, 0, "None", Default)
        /\ \A i \in 2..Len(visits) :
               visits[i].level >= 1 /\ visits[i].level <= visits[i - 1].level + 1
        /\ \A j \in 1..Len(visits) :
               With(ChildVisits(visits, j),
                    LAMBDA c :
                        /\ Len(c) = Len(Children(visits[j].e))
                        /\ \A k \in 1..Len(c) :
                               /\ visits[c[k]].e = Children(visits[j].e)[k].e
                               /\ visits[c[k]].edge =
                                      (IF last.salted THEN "None"
                                       ELSE Children(visits[j].e)[k].edge)
                               /\ visits[c[k]].parent =
                                      visit(visits[j].e, visits[j].level,
                                            visits[j].edge, visits[j].parent))
        /\ \A j \in 1..Len(visits) :
               visits[j].e.v = "Node" =>
                   \A k \in 1..(Len(visits[j].e.assertions) - 1) :
                       ~DigestLess(digest(visits[j].e.assertions[k + 1]),
                                   digest(visits[j].e.assertions[k]))
        /\ Course(visits) = Course(walk(env, ~last.salted))

\* C22 witness: a walk in structure mode has gone through a Node with two
\* assertions of different digests, one of them an Assertion with its
\* predicate and object, so that visits with the edges Subject, Assertion,
\* Predicate and Object were made at levels 1 and 2.
C22_Witness ==
    /\ last.op = "walk" /\ ~last.salted
    /\ env.v = "Node" /\ Len(env.assertions) >= 2
    /\ DigestLess(digest(env.assertions[1]), digest(env.assertions[2]))
    /\ \A edge \in {"Subject", "Assertion", "Predicate", "Object"} :
           \E i \in 1..Len(visits) : visits[i].edge = edge
    /\ \E i \in 1..Len(visits) : visits[i].level = 2

====
